---- MODULE Spec2Model ----
(***************************************************************************)
(* The rclone IPFS backend: the shared Root (current and initial root      *)
(* hash under a reader/writer lock), the mutation entry points of Fs and   *)
(* Object, and the persistence of the root to the IPFS MFS or to IPNS.     *)
(*                                                                         *)
(* A content hash is modelled by the content it addresses: a DAG node is   *)
(* the set of its leaves <<path, kind>>, so two hashes are equal exactly   *)
(* when the trees are equal.  A path is a sequence of link names, and a    *)
(* link name is a sequence of characters, so that the string form of a     *)
(* path (names joined by "/") and strings.HasPrefix are computed on        *)
(* characters.                                                             *)
(***************************************************************************)
EXTENDS Integers, Sequences, FiniteSets, TLC

----------------------------------------------------------------------------
(* Bounds of the model *)

\* operations (NewFs excluded) the clients start in one behaviour
MaxOps == 2
\* modifications of the external pointer made outside this process
MaxExt == 1
\* cumulative sizes above the full chunks that Fs.newObject is given
MaxOver == 300
\* full chunks of the largest file
MaxChunks == 2

----------------------------------------------------------------------------
(* Names, paths and DAG nodes *)

S  == <<"s">>
X  == <<"x">>
XY == <<"x", "y">>

\* the link names, in the byte order in which a directory lists its links
NameOrder == <<S, X, XY>>

NoHash == {}

EmptyDir == { << <<>>, "dir" >> }

FileNode(c) == { << <<>>, c >> }

\* strings.HasPrefix(s, prefix), on sequences
HasPrefix(s, prefix) ==
    /\ Len(prefix) <= Len(s)
    /\ SubSeq(s, 1, Len(prefix)) = prefix

\* path.Join of the components of a path: the names joined by "/"
RECURSIVE PathString(_)
PathString(p) ==
    IF p = <<>> THEN <<>>
    ELSE IF Len(p) = 1 THEN p[1]
    ELSE p[1] \o <<"/">> \o PathString(Tail(p))

\* the node a path resolves to under a node; NoHash when there is none
Resolve(n, p) ==
    { << SubSeq(e[1], Len(p) + 1, Len(e[1])), e[2] >> :
        e \in { e \in n : HasPrefix(e[1], p) } }

IsFileNode(n) == \E e \in n : e[1] = <<>> /\ e[2] # "dir"

LinkNames(n) == { e[1][1] : e \in { e \in n : e[1] # <<>> } }

\* api.Stat.NumLinks of /api/v0/object/stat
NumLinks(n) == Cardinality(LinkNames(n))

ParentOf(p) == SubSeq(p, 1, Len(p) - 1)

\* /api/v0/object/patch/add-link with create=true: whether the call succeeds
AddLinkOk(rootHash, p, linkHash) ==
    /\ p # <<>>
    /\ rootHash # NoHash
    /\ linkHash # NoHash
    /\ \A k \in 0..(Len(p) - 1) : ~IsFileNode(Resolve(rootHash, SubSeq(p, 1, k)))

\* /api/v0/object/patch/add-link with create=true: the hash of the new root
ObjectPatchAddLink(rootHash, p, linkHash) ==
    { e \in rootHash : ~HasPrefix(e[1], p) /\ ~(e[2] = "dir" /\ HasPrefix(p, e[1])) }
        \cup { << p \o e[1], e[2] >> : e \in linkHash }

\* /api/v0/object/patch/rm-link: whether the call succeeds
RmLinkOk(rootHash, p) ==
    /\ p # <<>>
    /\ Resolve(rootHash, p) # NoHash

\* /api/v0/object/patch/rm-link: the hash of the new root
ObjectPatchRmLink(rootHash, p) ==
    LET rest == { e \in rootHash : ~HasPrefix(e[1], p) }
    IN  IF Resolve(rest, ParentOf(p)) = NoHash
        THEN rest \cup { << ParentOf(p), "dir" >> }
        ELSE rest

\* api.Change of /api/v0/object/diff; Before/After are NoHash when nil
Change(p, before, after) == [Path |-> p, Before |-> before, After |-> after]

RECURSIVE Flatten(_)
Flatten(ss) == IF ss = <<>> THEN <<>> ELSE Head(ss) \o Flatten(Tail(ss))

\* /api/v0/object/diff: the changes that turn object1 into object2
RECURSIVE ObjectDiff(_, _)
ObjectDiff(a, b) ==
    IF a = b THEN <<>>
    ELSE IF LinkNames(a) = {} /\ LinkNames(b) = {} THEN << Change(<<>>, a, b) >>
    ELSE
        LET InBoth(n)  == n \in LinkNames(a) /\ n \in LinkNames(b)
            OnlyA(n)   == n \in LinkNames(a) /\ n \notin LinkNames(b)
            OnlyB(n)   == n \notin LinkNames(a) /\ n \in LinkNames(b)
            common     == SelectSeq(NameOrder, InBoth)
            removed    == SelectSeq(NameOrder, OnlyA)
            added      == SelectSeq(NameOrder, OnlyB)
            Sub(n)     ==
                LET d == ObjectDiff(Resolve(a, <<n>>), Resolve(b, <<n>>))
                IN  [ i \in 1..Len(d) |->
                        Change(<<n>> \o d[i].Path, d[i].Before, d[i].After) ]
        IN  Flatten([ i \in 1..Len(common) |-> Sub(common[i]) ])
            \o [ i \in 1..Len(removed) |->
                    Change(<<removed[i]>>, Resolve(a, <<removed[i]>>), NoHash) ]
            \o [ i \in 1..Len(added) |->
                    Change(<<added[i]>>, NoHash, Resolve(b, <<added[i]>>)) ]

\* /api/v0/files/rm with recursive=true on the MFS root m: whether it succeeds
FilesRmOk(m, p) ==
    /\ p # <<>>
    /\ Resolve(m, p) # NoHash

\* /api/v0/files/rm: the MFS root afterwards
FilesRm(m, p) == ObjectPatchRmLink(m, p)

\* /api/v0/files/cp from /ipfs/<node> to p on the MFS root m: whether it succeeds
FilesCpOk(m, node, p) ==
    /\ p # <<>>
    /\ node # NoHash
    /\ Resolve(m, p) = NoHash
    /\ Resolve(m, ParentOf(p)) # NoHash
    /\ ~IsFileNode(Resolve(m, ParentOf(p)))

\* /api/v0/files/cp: the MFS root afterwards
FilesCp(m, node, p) == ObjectPatchAddLink(m, p, node)

----------------------------------------------------------------------------
(* Configuration and inputs *)

Procs == {"p1", "p2"}

\* Fs.root of the Fs each client works through
FsRoot(p) == IF p = "p1" THEN <<>> ELSE <<X>>

\* path.Join(f.root, remote) without the leading "/"
relativePath(p, remote) == FsRoot(p) \o remote

\* the remote of a file and the remote of a directory, as the clients pass
\* them to the operations
FileRemote == <<S>>
DirRemote  == <<X>>

\* the paths an outside writer changes on the MFS
ExtPaths == { <<X>>, <<XY>> }

\* /x/s, a file
Tree1 == { << <<X, S>>, "f2" >> }

InitTrees == { EmptyDir, Tree1 }

\* Options: the base of --ipfs-root as path.Split returns it, whether the
\* endpoint is PublicGateway, whether the endpoint holds the key of the name
Configs ==
    { [base |-> "",       gateway |-> FALSE, hasKey |-> FALSE],
      [base |-> "/ipfs/", gateway |-> FALSE, hasKey |-> FALSE],
      [base |-> "/ipns/", gateway |-> FALSE, hasKey |-> TRUE],
      [base |-> "/ipns/", gateway |-> FALSE, hasKey |-> FALSE],
      [base |-> "/ipns/", gateway |-> TRUE,  hasKey |-> FALSE],
      [base |-> "/ipns/", gateway |-> TRUE,  hasKey |-> TRUE],
      [base |-> "",       gateway |-> TRUE,  hasKey |-> FALSE],
      [base |-> "/mfs/",  gateway |-> FALSE, hasKey |-> FALSE] }

NoBinding == [ipnsPath |-> "", ipnsKey |-> "", isMFS |-> FALSE, isReadOnly |-> FALSE]

\* the objects the clients hold (Object.remote, Object.ipfsHash)
Objects == { [remote |-> <<S>>, ipfsHash |-> FileNode("f2")] }

\* the content a client uploads with Put
PutFiles == { "f1" }

\* the hash of --ipfs-root=/ipfs/<hash>
IpfsPathHash == Tree1

\* the name of --ipfs-root=/ipns/<name>
IpnsName == "name"

\* /api/v0/key/list of the endpoint
KeyList(o) ==
    IF o.hasKey
    THEN { [Id |-> "other", Name |-> "k2"], [Id |-> IpnsName, Name |-> "k1"] }
    ELSE { [Id |-> "other", Name |-> "k2"] }

----------------------------------------------------------------------------
(* State *)

VARIABLES
    opt,            \* Fs.opt of every Fs: one endpoint and one --ipfs-root
    mfs,            \* the hash of the MFS root of the endpoint
    ipns,           \* the hash the IPNS name resolves to
    extCount,       \* modifications made outside this process so far
    opCount,        \* operations started so far
    sharedLocked,   \* sharedRoot (sync.RWMutex) is write-locked
    rootExists,     \* sharedRoot.cache holds the Root
    binding,        \* Root.ipnsPath, ipnsKey, isMFS, isReadOnly
    hash,           \* Root.hash
    initialHash,    \* Root.initialHash
    rootLock,       \* Root (sync.RWMutex): "free" or its write holder
    cl,             \* the clients: position and locals of the running operation
    per,            \* the goroutine running Root.persist
    periodic,       \* the periodicPersist goroutine is running
    atexitHooks,    \* r.persist functions registered with atexit
    phase,          \* "running" or, once the atexit handlers returned, "exited"
    crashed,        \* the process died of a panic or a runtime fatal error
    lin,            \* history: the edits applied one at a time, in lock order
    objectStat,     \* the api.ObjectStat that Fs.newObject is given
    fileSize        \* Object.size as Fs.newObject computes it

vars == << opt, mfs, ipns, extCount, opCount, sharedLocked, rootExists,
           binding, hash, initialHash, rootLock, cl, per, periodic,
           atexitHooks, phase, crashed, lin, objectStat, fileSize >>

sizeVars == << objectStat, fileSize >>

extVars  == << mfs, ipns, extCount >>
rootVars == << rootExists, binding, hash, initialHash >>
regVars  == << periodic, atexitHooks >>

NoClient ==
    [pc |-> "nofs", op |-> "", remote |-> <<>>, dst |-> <<>>, link |-> NoHash,
     res |-> NoHash, ret |-> "none", emptyDir |-> FALSE, rootHash |-> NoHash]

NoPersist ==
    [pc |-> "idle", queue |-> <<>>, calls |-> 0, writes |-> 0, exit |-> FALSE,
     out |-> "none", hash0 |-> NoHash, initial0 |-> NoHash,
              stat |-> NoHash, ext |-> 0]

\* no stat received, no size computed
NoStat == [CumulativeSize |-> 0, BlockSize |-> 0]

NoSize == [done |-> FALSE, size |-> 0]

Init ==
    /\ objectStat = NoStat
    /\ fileSize = NoSize
    /\ opt \in Configs
    /\ mfs \in InitTrees
    /\ ipns = Tree1
    /\ extCount = 0
    /\ opCount = 0
    /\ sharedLocked = FALSE
    /\ rootExists = FALSE
    /\ binding = NoBinding
    /\ hash = NoHash
    /\ initialHash = NoHash
    /\ rootLock = "free"
    /\ cl = [p \in Procs |-> NoClient]
    /\ per = NoPersist
    /\ periodic = FALSE
    /\ atexitHooks = 0
    /\ phase = "running"
    /\ crashed = FALSE
    /\ lin = NoHash

\* Alive with a panic that does not end the process
AliveAfterPanic == phase # "exited"

\* the process runs: no panic or runtime fatal error ended it, nor os.Exit
Alive == ~crashed /\ phase # "exited"

\* whether a remote call fails for a reason outside the model
FailChoices == {FALSE, TRUE}

\* which of the remote calls of a step fails ("" when none does)
Failing(calls) == {""} \cup calls

IsErr(r) == r \notin {"none", "ok"}

\* no client is inside NewFs or an operation: the program ends, and atexit
\* runs its handlers, when the operations of the command have returned
Quiescent == \A p \in Procs : cl[p].pc \in {"nofs", "idle", "failed"}

----------------------------------------------------------------------------
(* NewRoot and NewFs *)

\* the remote calls NewRoot issues for a configuration, in order
NewRootCalls(o) ==
    IF o.base = "/ipfs/" THEN <<>>
    ELSE IF o.base = "/ipns/"
         THEN IF o.gateway THEN <<"NameResolve">> ELSE <<"KeyList", "NameResolve">>
    ELSE IF o.base = "" /\ ~o.gateway THEN <<"FilesStat">>
    ELSE <<>>

\* RegistersAtExit for every Root, read-only or not
RegistersAtExitAlways(b) == TRUE

\* NewRoot: whether it registers r.persist with atexit
RegistersAtExit(b) == ~b.isReadOnly

\* MatchingKeys without the comparison of Key.Id with the name
AnyKeys(o) == KeyList(o)

\* NewRoot: the keys of the endpoint whose Id is the name of the IPNS path
MatchingKeys(o) == { k \in KeyList(o) : k.Id = IpnsName }

\* GatewayRejectsMFS with the test left out
GatewayAcceptsMFS(isGateWay) == FALSE

\* NewRoot: with an empty --ipfs-root, the public gateway is refused
GatewayRejectsMFS(isGateWay) == isGateWay

\* the remote calls NewRoot has issued when the call failing fails
IssuedCalls(o, failing) ==
    LET calls == NewRootCalls(o)
        k == CHOOSE i \in 1..Len(calls) : calls[i] = failing
    IN  { calls[i] : i \in 1..k }

\* NewRoot: the Root of a configuration, or the error; failing is the remote
\* call that fails ("" when none does). The error is the one of the remote
\* call (named after the call), the one of the gateway or the one of an
\* invalid path
NewRoot(o, failing) ==
    LET isGateWay == o.gateway
        Error(kind) == [err |-> TRUE, kind |-> kind, hash |-> NoHash,
                        binding |-> NoBinding]
        Root(h, ipnsPath, ipnsKey, isMFS) ==
            [err |-> FALSE, kind |-> "", hash |-> h,
             binding |-> [ipnsPath |-> ipnsPath, ipnsKey |-> ipnsKey, isMFS |-> isMFS,
                          isReadOnly |-> isGateWay \/ ~(isMFS \/ ipnsKey # "")]]
    IN  IF o.base = "/ipfs/" THEN Root(IpfsPathHash, "", "", FALSE)
        ELSE IF o.base = "/ipns/" THEN
            IF ~isGateWay /\ failing = "KeyList" THEN Error(failing)
            ELSE
                LET match   == IF isGateWay THEN {} ELSE MatchingKeys(o)
                    ipnsKey == IF match = {} THEN ""
                               ELSE (CHOOSE k \in match : TRUE).Name
                IN  IF failing = "NameResolve" THEN Error(failing)
                    ELSE Root(ipns, "/ipns/name", ipnsKey, FALSE)
        ELSE IF o.base = "" THEN
            IF GatewayRejectsMFS(isGateWay) THEN Error("gateway")
            ELSE IF failing = "FilesStat" THEN Error(failing)
            ELSE Root(mfs, "", "", TRUE)
        ELSE Error("invalid")

\* NewFs up to sharedRoot.Lock()
NewFsLock(p) ==
    /\ Alive
    /\ cl[p].pc = "nofs"
    /\ ~sharedLocked
    /\ sharedLocked' = TRUE
    /\ cl' = [cl EXCEPT ![p].pc = "newfs"]
    /\ UNCHANGED << sizeVars, opt, extVars, opCount, rootVars, rootLock, per,
                    regVars, phase, crashed, lin >>

\* sharedRoot.Unlock(): a runtime fatal error when sharedRoot is not locked
SharedUnlock ==
    /\ sharedLocked' = FALSE
    /\ crashed' = ~sharedLocked

\* StartsPeriodic for no Root
StartsPeriodicNever(b) == FALSE

\* StartsPeriodic for every Root that is not read-only
StartsPeriodicWhenWritable(b) == ~b.isReadOnly

\* NewRoot: whether it starts periodicPersist ("periodically for MFS only")
StartsPeriodic(b) == ~b.isReadOnly /\ b.isMFS

\* CacheHit with a cache that never holds the Root
CacheMiss == FALSE

\* NewFs: sharedRoot.cache[ipfsRootKey] != nil
CacheHit == rootExists

\* Inserted with the Root stored in the cache before the error is tested
InsertedAlways(r) == TRUE

\* NewFs: the result of NewRoot is stored in sharedRoot.cache
Inserted(r) == ~r.err

\* NewFs from the cache lookup to sharedRoot.Unlock()
NewFsRoot(p) ==
    /\ Alive
    /\ cl[p].pc = "newfs"
    /\ IF CacheHit
       THEN /\ SharedUnlock
            /\ cl' = [cl EXCEPT ![p].pc = "idle"]
            /\ UNCHANGED << rootVars, regVars, lin >>
       ELSE \E failing \in Failing({ NewRootCalls(opt)[i] :
                                        i \in 1..Len(NewRootCalls(opt)) }) :
                LET r == NewRoot(opt, failing)
                IN  /\ IF Inserted(r)
                       THEN /\ rootExists' = TRUE
                            /\ binding' = r.binding
                            /\ hash' = r.hash
                            /\ initialHash' = r.hash
                            /\ lin' = r.hash
                       ELSE UNCHANGED << rootVars, lin >>
                    /\ IF r.err
                       THEN \* return nil, err: sharedRoot stays locked
                            /\ cl' = [cl EXCEPT ![p].pc = "failed", ![p].ret = r.kind]
                            /\ UNCHANGED << sharedLocked, crashed, regVars >>
                       ELSE /\ periodic' = StartsPeriodic(r.binding)
                            /\ atexitHooks' = IF RegistersAtExit(r.binding)
                                              THEN atexitHooks + 1 ELSE atexitHooks
                            /\ SharedUnlock
                            /\ cl' = [cl EXCEPT ![p].pc = "idle"]
    /\ UNCHANGED << sizeVars, opt, extVars, opCount, rootLock, per, phase >>

----------------------------------------------------------------------------
(* The mutation entry points of Fs and Object *)

\* CanLock with a lock that excludes nobody
CanLockNoExclusion == TRUE

\* CanLock with a lock that the run of persist does not hold
CanLockDespitePersist == rootLock \in {"free", "persist"}

\* f.ipfsRoot.Lock() returns: no writer holds the Root
CanLock == rootLock = "free"

\* CanRLock with a read lock that waits for no writer
CanRLockAlways == TRUE

\* f.ipfsRoot.RLock() returns: no writer holds the Root
CanRLock == rootLock = "free"

CanStart(p) == Alive /\ cl[p].pc = "idle" /\ opCount < MaxOps

\* the locals of a client entering an operation
Enter(p, op, pcv, remote, dst, link) ==
    [cl EXCEPT ![p] = [pc |-> pcv, op |-> op, remote |-> remote, dst |-> dst,
                       link |-> link, res |-> NoHash, ret |-> "none",
                       emptyDir |-> cl[p].emptyDir, rootHash |-> NoHash]]

\* the locals of a client whose operation returns r from its first step
Abort(p, op, r) ==
    [cl EXCEPT ![p] = [pc |-> "idle", op |-> "", remote |-> <<>>, dst |-> <<>>,
                       link |-> NoHash, res |-> NoHash, ret |-> r,
                       emptyDir |-> cl[p].emptyDir, rootHash |-> NoHash]]

\* the locals of a client whose operation returns r
Return(p, r) ==
    IF cl[p].op = "Update"
    THEN [cl EXCEPT ![p].pc = "update_size", ![p].ret = r, ![p].remote = <<>>,
                    ![p].dst = <<>>, ![p].link = NoHash, ![p].res = NoHash,
                    ![p].rootHash = NoHash]
    ELSE [cl EXCEPT ![p].pc = "idle", ![p].op = "", ![p].ret = r, ![p].remote = <<>>,
                    ![p].dst = <<>>, ![p].link = NoHash, ![p].res = NoHash,
                    ![p].rootHash = NoHash]

\* the locals of a client that holds the lock with the new root hash h computed
Patched(p, pcv, h) == [cl EXCEPT ![p].pc = pcv, ![p].res = h]

\* f.ipfsRoot.hash = result.Hash; f.ipfsRoot.Unlock()
StoreAndUnlock(p) ==
    /\ hash' = cl[p].res
    /\ rootLock' = "free"

\* Fs.Put: f.api.Add
PutAdd(p, op) ==
    /\ CanStart(p)
    /\ opCount' = opCount + 1
    /\ \E c \in PutFiles, fail \in FailChoices :
        /\ cl' = IF fail
                 THEN IF op = "Update"
                      THEN [Enter(p, op, "update_size", <<>>, <<>>, NoHash)
                              EXCEPT ![p].ret = "err"]
                      ELSE Abort(p, op, "err")
                 ELSE Enter(p, op, "put_lock", relativePath(p, FileRemote), <<>>,
                            FileNode(c))
    /\ UNCHANGED << sizeVars, opt, extVars, sharedLocked, rootVars, rootLock, per, regVars,
                    phase, crashed, lin >>

\* Fs.Put: f.ipfsRoot.Lock() and ObjectPatchAddLink
PutLock(p) ==
    /\ Alive
    /\ cl[p].pc = "put_lock"
    /\ CanLock
    /\ \E fail \in FailChoices :
        /\ IF fail \/ ~AddLinkOk(hash, cl[p].remote, cl[p].link)
           THEN /\ rootLock' = "free"
                /\ cl' = Return(p, "err")
                /\ lin' = lin
           ELSE /\ rootLock' = p
                /\ cl' = Patched(p, "put_store",
                                 ObjectPatchAddLink(hash, cl[p].remote, cl[p].link))
                /\ lin' = ObjectPatchAddLink(lin, cl[p].remote, cl[p].link)
    /\ UNCHANGED << sizeVars, opt, extVars, opCount, sharedLocked, rootVars, per, regVars,
                    phase, crashed >>

\* Fs.Put: the store of the new hash and the unlock; NewObject follows
PutStore(p) ==
    /\ Alive
    /\ cl[p].pc = "put_store"
    /\ StoreAndUnlock(p)
    /\ cl' = [cl EXCEPT ![p].pc = "newobj", ![p].res = NoHash]
    /\ UNCHANGED << sizeVars, opt, extVars, opCount, sharedLocked, rootExists, binding,
                    initialHash, per, regVars, phase, crashed, lin >>

\* Fs.NewObject up to ObjectStat: the hash is read under the read lock
NewObjectStat(p) ==
    /\ Alive
    /\ cl[p].pc = "newobj"
    /\ CanRLock
    /\ \E fail \in FailChoices :
        /\ cl' = IF fail THEN Return(p, "err")
                 ELSE IF Resolve(hash, cl[p].remote) = NoHash
                      THEN Return(p, "ErrorObjectNotFound")
                 ELSE [cl EXCEPT ![p].pc = "isfile", ![p].rootHash = hash]
    /\ UNCHANGED << sizeVars, opt, extVars, opCount, sharedLocked, rootVars, rootLock, per,
                    regVars, phase, crashed, lin >>

\* Fs.PublicLink up to RUnlock: absolutePath is built from the hash read
\* under the read lock and the path of the remote
PublicLinkPath(p) ==
    /\ CanStart(p)
    /\ CanRLock
    /\ opCount' = opCount + 1
    /\ cl' = Enter(p, "PublicLink", "publiclink_stat", relativePath(p, FileRemote),
                   <<>>, hash)
    /\ UNCHANGED << sizeVars, opt, extVars, sharedLocked, rootVars, rootLock, per, regVars,
                    phase, crashed, lin >>

\* Fs.PublicLink: f.api.ObjectStat(absolutePath); its error is returned, and
\* otherwise the link HttpGateway + absolutePath
PublicLinkStat(p) ==
    /\ Alive
    /\ cl[p].pc = "publiclink_stat"
    /\ \E fail \in FailChoices :
        cl' = IF fail \/ Resolve(cl[p].link, cl[p].remote) = NoHash
              THEN Return(p, "err")
              ELSE Return(p, "ok")
    /\ UNCHANGED << sizeVars, opt, extVars, opCount, sharedLocked, rootVars, rootLock, per,
                    regVars, phase, crashed, lin >>

\* Fs.List up to RUnlock: rootHash is read under the read lock
ListHash(p) ==
    /\ CanStart(p)
    /\ CanRLock
    /\ opCount' = opCount + 1
    /\ cl' = Enter(p, "List", "list_ls", relativePath(p, DirRemote), <<>>, hash)
    /\ UNCHANGED << sizeVars, opt, extVars, sharedLocked, rootVars, rootLock, per, regVars,
                    phase, crashed, lin >>

\* Fs.List: f.api.Ls of the directory under rootHash and ObjectStat of its
\* files; an error the daemon answers is ErrorDirNotFound
ListLs(p) ==
    /\ Alive
    /\ cl[p].pc = "list_ls"
    /\ \E fail \in FailChoices :
        cl' = IF Resolve(cl[p].link, cl[p].remote) = NoHash
              THEN Return(p, "ErrorDirNotFound")
              ELSE IF fail THEN Return(p, "err")
              ELSE Return(p, "ok")
    /\ UNCHANGED << sizeVars, opt, extVars, opCount, sharedLocked, rootVars, rootLock, per,
                    regVars, phase, crashed, lin >>

\* Object.Open up to RUnlock: absolutePath is built from the hash read under
\* the read lock
OpenPath(p) ==
    /\ CanStart(p)
    /\ CanRLock
    /\ opCount' = opCount + 1
    /\ \E o \in Objects :
        cl' = Enter(p, "Open", "open_cat", relativePath(p, o.remote), <<>>, hash)
    /\ UNCHANGED << sizeVars, opt, extVars, sharedLocked, rootVars, rootLock, per, regVars,
                    phase, crashed, lin >>

\* Object.Open: o.fs.api.Cat(absolutePath)
OpenCat(p) ==
    /\ Alive
    /\ cl[p].pc = "open_cat"
    /\ \E fail \in FailChoices :
        cl' = IF fail \/ Resolve(cl[p].link, cl[p].remote) = NoHash
              THEN Return(p, "err")
              ELSE Return(p, "ok")
    /\ UNCHANGED << sizeVars, opt, extVars, opCount, sharedLocked, rootVars, rootLock, per,
                    regVars, phase, crashed, lin >>

\* Fs.isFile as NewObject calls it: the hash is read again under the read
\* lock; an error of Ls is dropped and the remote is reported as no file
IsFile(p) ==
    /\ Alive
    /\ cl[p].pc = "isfile"
    /\ CanRLock
    /\ \E fail \in FailChoices :
        /\ cl' = IF fail \/ ~IsFileNode(Resolve(hash, cl[p].remote))
                 THEN Return(p, "ErrorNotAFile")
                 ELSE IF cl[p].op = "Move"
                      THEN [cl EXCEPT ![p].pc = "remove_lock", ![p].rootHash = NoHash]
                 ELSE Return(p, "ok")
    /\ UNCHANGED << sizeVars, opt, extVars, opCount, sharedLocked, rootVars, rootLock, per,
                    regVars, phase, crashed, lin >>

\* Fs.Mkdir: emptyDirHash (ObjectNewDir unless the hash is cached),
\* f.ipfsRoot.Lock() and ObjectPatchAddLink
MkdirLock(p) ==
    /\ CanStart(p)
    /\ CanLock
    /\ opCount' = opCount + 1
    /\ \E failing \in Failing(IF cl[p].emptyDir THEN {"AddLink"}
                              ELSE {"ObjectNewDir", "AddLink"}) :
        LET dirPath == relativePath(p, DirRemote)
        IN  /\ IF failing = "ObjectNewDir"
               THEN /\ rootLock' = rootLock
                    /\ cl' = Abort(p, "Mkdir", "err")
                    /\ lin' = lin
               ELSE IF failing = "AddLink" \/ ~AddLinkOk(hash, dirPath, EmptyDir)
               THEN /\ rootLock' = "free"
                    /\ cl' = [Abort(p, "Mkdir", "err") EXCEPT ![p].emptyDir = TRUE]
                    /\ lin' = lin
               ELSE /\ rootLock' = p
                    /\ cl' = [Enter(p, "Mkdir", "mkdir_store", dirPath, <<>>, EmptyDir)
                                EXCEPT ![p].emptyDir = TRUE,
                                       ![p].res = ObjectPatchAddLink(hash, dirPath,
                                                                     EmptyDir)]
                    /\ lin' = ObjectPatchAddLink(lin, dirPath, EmptyDir)
    /\ UNCHANGED << sizeVars, opt, extVars, sharedLocked, rootVars, per, regVars, phase, crashed >>

\* the store of the new hash, the unlock and the return of nil
Store(p, pcv) ==
    /\ Alive
    /\ cl[p].pc = pcv
    /\ StoreAndUnlock(p)
    /\ cl' = Return(p, "ok")
    /\ UNCHANGED << sizeVars, opt, extVars, opCount, sharedLocked, rootExists, binding,
                    initialHash, per, regVars, phase, crashed, lin >>

\* Fs.Mkdir: the store of the new hash and the unlock
MkdirStore(p) == Store(p, "mkdir_store")

\* HasChildren with the check left out
HasChildrenNever(stat) == FALSE

\* Fs.Rmdir: stat.NumLinks > 0
HasChildren(stat) == NumLinks(stat) > 0

\* Fs.Rmdir: f.ipfsRoot.Lock(), ObjectStat, the check for children and
\* ObjectPatchRmLink
RmdirLock(p) ==
    /\ CanStart(p)
    /\ CanLock
    /\ opCount' = opCount + 1
    /\ \E fail \in FailChoices :
        LET dirPath == relativePath(p, DirRemote)
        IN  /\ IF fail
               THEN /\ rootLock' = "free"
                    /\ cl' = Abort(p, "Rmdir", "err")
                    /\ lin' = lin
               ELSE IF Resolve(hash, dirPath) = NoHash
               THEN /\ rootLock' = "free"
                    /\ cl' = Abort(p, "Rmdir", "ErrorDirNotFound")
                    /\ lin' = lin
               ELSE IF HasChildren(Resolve(hash, dirPath))
               THEN /\ rootLock' = "free"
                    /\ cl' = Abort(p, "Rmdir", "ErrorDirectoryNotEmpty")
                    /\ lin' = lin
               ELSE IF ~RmLinkOk(hash, dirPath)
               THEN /\ rootLock' = "free"
                    /\ cl' = Abort(p, "Rmdir", "err")
                    /\ lin' = lin
               ELSE /\ rootLock' = p
                    /\ cl' = [Enter(p, "Rmdir", "rmdir_store", dirPath, <<>>, NoHash)
                                EXCEPT ![p].res = ObjectPatchRmLink(hash, dirPath)]
                    /\ lin' = ObjectPatchRmLink(lin, dirPath)
    /\ UNCHANGED << sizeVars, opt, extVars, sharedLocked, rootVars, per, regVars, phase, crashed >>

\* Fs.Rmdir: the store of the new hash and the unlock
RmdirStore(p) == Store(p, "rmdir_store")

\* Fs.Copy: f.ipfsRoot.Lock() and ObjectPatchAddLink; on an error the code
\* calls sharedRoot.Unlock() and the Root stays locked
CopyLock(p, op) ==
    /\ CanStart(p)
    /\ CanLock
    /\ opCount' = opCount + 1
    /\ \E src \in Objects, fail \in FailChoices :
        LET objectPath == relativePath(p, DirRemote)
        IN  /\ rootLock' = p
            /\ IF fail \/ ~AddLinkOk(hash, objectPath, src.ipfsHash)
               THEN /\ SharedUnlock
                    /\ cl' = IF sharedLocked THEN Abort(p, op, "err")
                             ELSE [cl EXCEPT ![p].pc = "fatal"]
                    /\ lin' = lin
               ELSE /\ cl' = [Enter(p, op, "copy_store", objectPath,
                                    relativePath(p, src.remote), src.ipfsHash)
                                EXCEPT ![p].res = ObjectPatchAddLink(hash, objectPath,
                                                                     src.ipfsHash)]
                    /\ lin' = ObjectPatchAddLink(lin, objectPath, src.ipfsHash)
                    /\ UNCHANGED << sharedLocked, crashed >>
    /\ UNCHANGED << sizeVars, opt, extVars, rootVars, per, regVars, phase >>

\* Fs.Copy: the store of the new hash and the unlock; NewObject follows
CopyStore(p) ==
    /\ Alive
    /\ cl[p].pc = "copy_store"
    /\ StoreAndUnlock(p)
    /\ cl' = [cl EXCEPT ![p].pc = "newobj", ![p].res = NoHash]
    /\ UNCHANGED << sizeVars, opt, extVars, opCount, sharedLocked, rootExists, binding,
                    initialHash, per, regVars, phase, crashed, lin >>

\* Object.Remove: o.fs.ipfsRoot.Lock() and ObjectPatchRmLink
RemoveLock(p) ==
    /\ CanStart(p)
    /\ CanLock
    /\ opCount' = opCount + 1
    /\ \E o \in Objects, fail \in FailChoices :
        LET path == relativePath(p, o.remote)
        IN  /\ IF fail
               THEN /\ rootLock' = "free"
                    /\ cl' = Abort(p, "Remove", "err")
                    /\ lin' = lin
               ELSE IF ~RmLinkOk(hash, path)
               THEN /\ rootLock' = "free"
                    /\ cl' = Abort(p, "Remove", "ErrorObjectNotFound")
                    /\ lin' = lin
               ELSE /\ rootLock' = p
                    /\ cl' = [Enter(p, "Remove", "remove_store", path, <<>>, NoHash)
                                EXCEPT ![p].res = ObjectPatchRmLink(hash, path)]
                    /\ lin' = ObjectPatchRmLink(lin, path)
    /\ UNCHANGED << sizeVars, opt, extVars, sharedLocked, rootVars, per, regVars, phase, crashed >>

\* Object.Remove: the store of the new hash and the unlock
RemoveStore(p) == Store(p, "remove_store")

\* Fs.Move: src.Remove() after Copy returned the new object
MoveRemove(p) ==
    /\ Alive
    /\ cl[p].pc = "remove_lock"
    /\ CanLock
    /\ \E fail \in FailChoices :
        /\ IF fail
           THEN /\ rootLock' = "free"
                /\ cl' = Return(p, "err")
                /\ lin' = lin
           ELSE IF ~RmLinkOk(hash, cl[p].dst)
           THEN /\ rootLock' = "free"
                /\ cl' = Return(p, "ErrorObjectNotFound")
                /\ lin' = lin
           ELSE /\ rootLock' = p
                /\ cl' = Patched(p, "remove_store", ObjectPatchRmLink(hash, cl[p].dst))
                /\ lin' = ObjectPatchRmLink(lin, cl[p].dst)
    /\ UNCHANGED << sizeVars, opt, extVars, opCount, sharedLocked, rootVars, per, regVars,
                    phase, crashed >>

\* Fs.DirMove: f.ipfsRoot.Lock(), the two ObjectStat and ObjectPatchAddLink;
\* a failing stat of the destination leaves destStat nil and goes on
DirMoveLock(p) ==
    /\ CanStart(p)
    /\ CanLock
    /\ opCount' = opCount + 1
    /\ \E failing \in Failing({"destStat", "srcStat", "AddLink"}) :
        LET srcRelativePath == relativePath(p, DirRemote)
            dstRelativePath == relativePath(p, FileRemote)
            srcStat == Resolve(hash, srcRelativePath)
        IN  /\ IF failing # "destStat" /\ Resolve(hash, dstRelativePath) # NoHash
               THEN /\ failing = ""
                    /\ rootLock' = "free"
                    /\ cl' = Abort(p, "DirMove", "ErrorDirExists")
                    /\ lin' = lin
               ELSE IF failing \in {"srcStat", "AddLink"} \/ srcStat = NoHash
                            \/ ~AddLinkOk(hash, dstRelativePath, srcStat)
               THEN /\ rootLock' = "free"
                    /\ cl' = Abort(p, "DirMove", "err")
                    /\ lin' = lin
               ELSE /\ rootLock' = p
                    /\ cl' = [Enter(p, "DirMove", "dirmove_store", srcRelativePath,
                                    dstRelativePath, srcStat)
                                EXCEPT ![p].res = ObjectPatchAddLink(hash,
                                                    dstRelativePath, srcStat)]
                    /\ lin' = ObjectPatchAddLink(lin, dstRelativePath, srcStat)
    /\ UNCHANGED << sizeVars, opt, extVars, sharedLocked, rootVars, per, regVars, phase, crashed >>

\* Fs.DirMove: the store of the copy; the lock stays held
DirMoveStore(p) ==
    /\ Alive
    /\ cl[p].pc = "dirmove_store"
    /\ hash' = cl[p].res
    /\ cl' = [cl EXCEPT ![p].pc = "dirmove_rm"]
    /\ UNCHANGED << sizeVars, opt, extVars, opCount, sharedLocked, rootExists, binding,
                    initialHash, rootLock, per, regVars, phase, crashed, lin >>

\* Fs.DirMove: ObjectPatchRmLink of the source on the stored hash, the store
\* of its result and the deferred unlock
DirMoveRemove(p) ==
    /\ Alive
    /\ cl[p].pc = "dirmove_rm"
    /\ \E fail \in FailChoices :
        /\ rootLock' = "free"
        /\ IF fail \/ ~RmLinkOk(hash, cl[p].remote)
           THEN /\ hash' = hash
                /\ cl' = Return(p, "err")
                /\ lin' = lin
           ELSE /\ hash' = ObjectPatchRmLink(hash, cl[p].remote)
                /\ cl' = Return(p, "ok")
                /\ lin' = ObjectPatchRmLink(lin, cl[p].remote)
    /\ UNCHANGED << sizeVars, opt, extVars, opCount, sharedLocked, rootExists, binding,
                    initialHash, per, regVars, phase, crashed >>

\* Fs.Purge: f.ipfsRoot.Lock(), then emptyDirHash when f.root is "" and
\* ObjectPatchRmLink of f.root otherwise
PurgeLock(p) ==
    /\ CanStart(p)
    /\ CanLock
    /\ opCount' = opCount + 1
    /\ \E fail \in FailChoices :
        /\ fail /\ FsRoot(p) = <<>> => ~cl[p].emptyDir
        /\ IF fail \/ (FsRoot(p) # <<>> /\ ~RmLinkOk(hash, FsRoot(p)))
           THEN /\ rootLock' = "free"
                /\ cl' = Abort(p, "Purge", "err")
                /\ lin' = lin
           ELSE LET h == IF FsRoot(p) = <<>> THEN EmptyDir
                         ELSE ObjectPatchRmLink(hash, FsRoot(p))
                IN  /\ rootLock' = p
                    /\ cl' = [Enter(p, "Purge", "purge_store", FsRoot(p), <<>>, NoHash)
                                EXCEPT ![p].res = h,
                                       ![p].emptyDir = (cl[p].emptyDir \/ FsRoot(p) = <<>>)]
                    /\ lin' = IF FsRoot(p) = <<>> THEN EmptyDir
                              ELSE ObjectPatchRmLink(lin, FsRoot(p))
    /\ UNCHANGED << sizeVars, opt, extVars, sharedLocked, rootVars, per, regVars, phase, crashed >>

\* Fs.Purge: the store of the new hash and the deferred unlock
PurgeStore(p) == Store(p, "purge_store")

\* Fs.MergeDirs, the links of one directory: ObjectPatchAddLink of every link
\* of d under srcPath on the working root hash w; NoHash when a call fails
RECURSIVE MergeLinks(_, _, _, _)
MergeLinks(w, srcPath, d, names) ==
    IF names = <<>> THEN w
    ELSE IF Head(names) \notin LinkNames(d) THEN MergeLinks(w, srcPath, d, Tail(names))
    ELSE IF ~AddLinkOk(w, srcPath \o <<Head(names)>>, Resolve(d, <<Head(names)>>))
    THEN NoHash
    ELSE MergeLinks(ObjectPatchAddLink(w, srcPath \o <<Head(names)>>,
                                       Resolve(d, <<Head(names)>>)),
                    srcPath, d, Tail(names))

\* Fs.MergeDirs, one directory of dirs[1:]: Ls, the links, ObjectPatchRmLink;
\* NoHash when a call fails
MergeDir(w, srcPath, dirPath) ==
    IF Resolve(w, dirPath) = NoHash THEN NoHash
    ELSE LET linked == MergeLinks(w, srcPath, Resolve(w, dirPath), NameOrder)
         IN  IF linked = NoHash \/ ~RmLinkOk(linked, dirPath) THEN NoHash
             ELSE ObjectPatchRmLink(linked, dirPath)

\* Fs.MergeDirs, the links of one directory: workingRootHash when the loop
\* over the links ends, with the last call or with the first one that fails
RECURSIVE MergeLinksDone(_, _, _, _)
MergeLinksDone(w, srcPath, d, names) ==
    IF names = <<>> THEN w
    ELSE IF Head(names) \notin LinkNames(d) THEN MergeLinksDone(w, srcPath, d, Tail(names))
    ELSE IF ~AddLinkOk(w, srcPath \o <<Head(names)>>, Resolve(d, <<Head(names)>>))
    THEN w
    ELSE MergeLinksDone(ObjectPatchAddLink(w, srcPath \o <<Head(names)>>,
                                           Resolve(d, <<Head(names)>>)),
                        srcPath, d, Tail(names))

\* Fs.MergeDirs: workingRootHash at the return err of a call that fails
WorkingRootHash(w, srcPath, dirPath) ==
    IF Resolve(w, dirPath) = NoHash THEN w
    ELSE MergeLinksDone(w, srcPath, Resolve(w, dirPath), NameOrder)

\* MergeDirs storing workingRootHash on a return err
MergeDirsStoresWorking(h, working) == working

\* Fs.MergeDirs: Root.hash after a return err; the code stores nothing
MergeDirsOnError(h, working) == h

\* Fs.MergeDirs: f.ipfsRoot.Lock() and the loop over dirs[1:] on workingRootHash
MergeDirsLock(p) ==
    /\ CanStart(p)
    /\ CanLock
    /\ opCount' = opCount + 1
    /\ \E fail \in FailChoices :
        LET srcPath == relativePath(p, FileRemote)
            dirPath == relativePath(p, DirRemote)
        IN  /\ IF fail \/ MergeDir(hash, srcPath, dirPath) = NoHash
               THEN /\ rootLock' = "free"
                    /\ hash' = MergeDirsOnError(hash, WorkingRootHash(hash, srcPath, dirPath))
                    /\ cl' = Abort(p, "MergeDirs", "err")
                    /\ lin' = lin
               ELSE /\ rootLock' = p
                    /\ hash' = hash
                    /\ cl' = [Enter(p, "MergeDirs", "mergedirs_store", srcPath,
                                    dirPath, NoHash)
                                EXCEPT ![p].res = MergeDir(hash, srcPath, dirPath)]
                    /\ lin' = MergeDir(lin, srcPath, dirPath)
    /\ UNCHANGED << sizeVars, opt, extVars, sharedLocked, rootExists, binding,
                    initialHash, per, regVars, phase, crashed >>

\* Fs.MergeDirs: f.ipfsRoot.hash = workingRootHash and the deferred unlock
MergeDirsStore(p) == Store(p, "mergedirs_store")

----------------------------------------------------------------------------
(* Root.persist *)

\* the clients once the process is gone
Dead == [p \in Procs |-> [NoClient EXCEPT !.pc = "dead"]]

\* a panic of persist or the end of the program ends the goroutines of the
\* clients with the process
EndClients == cl' = IF crashed' \/ phase' = "exited" THEN Dead ELSE cl

\* Object.Update: whether o.size = o2.Size() dereferences a nil o2; Put
\* returns nil with every error
UpdateDereferencesNil(err) == err

\* Object.Update after Put returned: o.size = o2.Size() and return err; the
\* dereference of a nil o2 is a panic nothing recovers
UpdateSize(p) ==
    /\ Alive
    /\ cl[p].pc = "update_size"
    /\ crashed' = UpdateDereferencesNil(cl[p].ret # "ok")
    /\ cl' = IF crashed' THEN [cl EXCEPT ![p].pc = "fatal"]
             ELSE [cl EXCEPT ![p].pc = "idle", ![p].op = ""]
    /\ UNCHANGED << sizeVars, opt, extVars, opCount, sharedLocked, rootVars, rootLock,
                    per, regVars, phase, lin >>

\* a run of persist that panics after calls remote calls, writes of them
\* FilesRm, FilesCp or NamePublish: the deferred Unlock runs, the process dies
Panic(out, calls, writes) ==
    /\ rootLock' = "free"
    /\ crashed' = TRUE
    /\ per' = [per EXCEPT !.pc = "idle", !.out = out, !.queue = <<>>,
                          !.calls = calls, !.writes = writes]

\* a run of persist that returns after calls remote calls, writes of them
\* FilesRm, FilesCp or NamePublish: the lock is released; the run of atexit
\* is the last thing the process does
Returned(run, out, calls, writes) ==
    /\ rootLock' = "free"
    /\ per' = IF run.exit
              THEN [run EXCEPT !.pc = "idle", !.out = out, !.queue = <<>>,
                               !.calls = calls, !.writes = writes]
              ELSE NoPersist
    /\ phase' = IF run.exit THEN "exited" ELSE phase

\* NothingToPersist without the comparison
NothingToPersistUnchecked == FALSE

\* hash == initialHash: persist has nothing to do
NothingToPersist == hash = initialHash

\* Root.persist up to the call of persistToMFS or persistToIPNS, run by
\* periodicPersist (exit = FALSE) or by atexit when the program ends
\* (exit = TRUE)
persist(exit) ==
    /\ Alive
    /\ per.pc = "idle" \/ per.exit # exit
    /\ rootExists
    /\ IF exit THEN atexitHooks > 0 /\ Quiescent ELSE periodic
    /\ CanLock
    /\ LET run == [NoPersist EXCEPT !.exit = exit, !.hash0 = hash,
                                    !.initial0 = initialHash]
       IN  IF NothingToPersist
           THEN Returned(run, "noop", 0, 0)
           ELSE IF binding.isMFS
           THEN /\ rootLock' = "persist"
                /\ per' = [run EXCEPT !.pc = "stat"]
                /\ phase' = phase
           ELSE IF binding.ipnsKey # ""
           THEN /\ rootLock' = "persist"
                /\ per' = [run EXCEPT !.pc = "resolve"]
                /\ phase' = phase
           ELSE Returned(run, "noop", 0, 0)
    /\ UNCHANGED << sizeVars, opt, extVars, opCount, sharedLocked, rootVars, regVars, crashed, lin >>
    /\ EndClients

\* listChangedPath: the paths of the changes, as the strings of the API
listChangedPath(changes) == { PathString(changes[i].Path) : i \in 1..Len(changes) }

\* PathsConflict with one direction of the test only
PathsConflictOneWay(externalChangedPath, localChangedPath) ==
    HasPrefix(externalChangedPath, localChangedPath)

\* the test of persistToMFS on two changed paths
PathsConflict(externalChangedPath, localChangedPath) ==
    \/ HasPrefix(externalChangedPath, localChangedPath)
    \/ HasPrefix(localChangedPath, externalChangedPath)

\* persistToMFS: whether some external and some local changed path conflict
Conflict(externalChanges, localChanges) ==
    \E e \in listChangedPath(externalChanges), l \in listChangedPath(localChanges) :
        PathsConflict(e, l)

\* Commands with the copy of a change issued before its remove
RECURSIVE CommandsCopyFirst(_)
CommandsCopyFirst(changes) ==
    IF changes = <<>> THEN <<>>
    ELSE (IF Head(changes).After # NoHash
          THEN << [call |-> "FilesCp", path |-> Head(changes).Path,
                   node |-> Head(changes).After] >>
          ELSE <<>>)
         \o (IF Head(changes).Before # NoHash
             THEN << [call |-> "FilesRm", path |-> Head(changes).Path, node |-> NoHash] >>
             ELSE <<>>)
         \o CommandsCopyFirst(Tail(changes))

\* persistToMFS, the loop over diff.Changes: the remote calls it issues, in order
RECURSIVE Commands(_)
Commands(changes) ==
    IF changes = <<>> THEN <<>>
    ELSE (IF Head(changes).Before # NoHash
          THEN << [call |-> "FilesRm", path |-> Head(changes).Path, node |-> NoHash] >>
          ELSE <<>>)
         \o (IF Head(changes).After # NoHash
             THEN << [call |-> "FilesCp", path |-> Head(changes).Path,
                      node |-> Head(changes).After] >>
             ELSE <<>>)
         \o Commands(Tail(changes))

\* persistToMFS from FilesStat to the detection of incompatible changes
persistToMFSDiff ==
    /\ Alive
    /\ per.pc = "stat"
    /\ \E failing \in Failing(IF mfs # initialHash
                              THEN {"FilesStat", "ObjectDiff", "externalDiff"}
                              ELSE {"FilesStat", "ObjectDiff"}) :
        LET diff == ObjectDiff(initialHash, hash)
            externalDiff == ObjectDiff(mfs, initialHash)
            calls == IF failing = "FilesStat" THEN 1
                     ELSE IF failing = "ObjectDiff" \/ mfs = initialHash THEN 2
                     ELSE 3
        IN  /\ IF failing # ""
               THEN Panic("error", calls, 0)
               ELSE IF mfs # initialHash /\ Conflict(externalDiff, diff)
               THEN Panic("conflict", calls, 0)
               ELSE /\ per' = [per EXCEPT !.pc = IF diff = <<>> THEN "finish" ELSE "apply",
                                          !.calls = calls, !.queue = Commands(diff),
                                          !.stat = mfs, !.ext = extCount]
                    /\ UNCHANGED << rootLock, crashed >>
    /\ UNCHANGED << sizeVars, opt, extVars, opCount, sharedLocked, rootVars, regVars,
                    phase, lin >>
    /\ EndClients

\* persistToMFS, the loop over diff.Changes: the next FilesRm or FilesCp
persistToMFSApply ==
    /\ Alive
    /\ per.pc = "apply"
    /\ \E fail \in FailChoices :
        LET c  == Head(per.queue)
            ok == IF c.call = "FilesRm" THEN FilesRmOk(mfs, c.path)
                  ELSE FilesCpOk(mfs, c.node, c.path)
        IN  /\ IF fail \/ ~ok
               THEN /\ Panic("error", per.calls + 1, per.writes + 1)
                    /\ mfs' = mfs
               ELSE /\ mfs' = IF c.call = "FilesRm" THEN FilesRm(mfs, c.path)
                              ELSE FilesCp(mfs, c.node, c.path)
                    /\ per' = [per EXCEPT !.queue = Tail(per.queue),
                                          !.calls = per.calls + 1,
                                          !.writes = per.writes + 1,
                                          !.pc = IF Tail(per.queue) = <<>>
                                                 THEN "finish" ELSE "apply"]
                    /\ UNCHANGED << rootLock, crashed >>
    /\ UNCHANGED << sizeVars, opt, ipns, extCount, opCount, sharedLocked, rootVars, regVars, phase, lin >>
    /\ EndClients

\* StatHash that keeps the locally computed hash
StatHashLocal == hash

\* stat.Hash of the FilesStat("/") that ends persistToMFS
StatHash == mfs

\* persistToMFS from the second FilesStat to the end, and the deferred unlock
persistToMFSFinish ==
    /\ Alive
    /\ per.pc = "finish"
    /\ \E fail \in FailChoices :
        /\ IF fail
           THEN /\ Panic("error", per.calls + 1, per.writes)
                /\ UNCHANGED << hash, initialHash, phase, lin >>
           ELSE /\ hash' = StatHash
                /\ initialHash' = StatHash
                /\ lin' = StatHash
                /\ Returned(per, "ok", per.calls + 1, per.writes)
                /\ crashed' = crashed
    /\ UNCHANGED << sizeVars, opt, extVars, opCount, sharedLocked, rootExists, binding, regVars >>
    /\ EndClients

\* IpnsConflict without the comparison
IpnsConflictIgnored == FALSE

\* r.initialHash != ipfsHash: the name no longer resolves to initialHash
IpnsConflict == initialHash # ipns

\* persistToIPNS up to the comparison of the resolved hash with initialHash
persistToIPNSResolve ==
    /\ Alive
    /\ per.pc = "resolve"
    /\ \E fail \in FailChoices :
        /\ IF fail
           THEN Panic("error", 1, 0)
           ELSE IF IpnsConflict
           THEN Panic("conflict", 1, 0)
           ELSE /\ per' = [per EXCEPT !.pc = "publish", !.calls = 1]
                /\ UNCHANGED << rootLock, crashed >>
    /\ UNCHANGED << sizeVars, opt, extVars, opCount, sharedLocked, rootVars, regVars,
                    phase, lin >>
    /\ EndClients

\* persistToIPNS from NamePublish to the end, and the deferred unlock
persistToIPNSPublish ==
    /\ Alive
    /\ per.pc = "publish"
    /\ \E fail \in FailChoices :
        /\ IF fail
           THEN /\ Panic("error", per.calls + 1, per.writes + 1)
                /\ UNCHANGED << ipns, initialHash, phase >>
           ELSE /\ ipns' = hash
                /\ initialHash' = hash
                /\ Returned(per, "ok", per.calls + 1, per.writes + 1)
                /\ crashed' = crashed
    /\ UNCHANGED << sizeVars, opt, mfs, extCount, opCount, sharedLocked, rootExists, binding,
                    hash, regVars, lin >>
    /\ EndClients

----------------------------------------------------------------------------
(* The environment *)

\* another writer adds a file to the MFS, or removes a path from it
ExternalEdit ==
    /\ Alive
    /\ extCount < MaxExt
    /\ extCount' = extCount + 1
    /\ \E path \in ExtPaths :
        \/ /\ FilesRmOk(mfs, path)
           /\ mfs' = FilesRm(mfs, path)
        \/ /\ AddLinkOk(mfs, path, FileNode("f3"))
           /\ mfs' = ObjectPatchAddLink(mfs, path, FileNode("f3"))
    /\ UNCHANGED << sizeVars, opt, ipns, opCount, sharedLocked, rootVars, rootLock, cl,
                    per, regVars, phase, crashed, lin >>

\* the holder of the key publishes another hash under the IPNS name
ExternalPublish ==
    /\ Alive
    /\ extCount < MaxExt
    /\ opt.base = "/ipns/"
    /\ extCount' = extCount + 1
    /\ ipns' = EmptyDir
    /\ ipns # EmptyDir
    /\ UNCHANGED << sizeVars, opt, mfs, opCount, sharedLocked, rootVars, rootLock, cl,
                    per, regVars, phase, crashed, lin >>

\* the program ends with no handler registered with atexit
Exit ==
    /\ Alive
    /\ atexitHooks = 0
    /\ Quiescent
    /\ phase' = "exited"
    /\ UNCHANGED << sizeVars, opt, extVars, opCount, sharedLocked, rootVars, rootLock,
                    per, regVars, crashed, lin >>
    /\ EndClients

----------------------------------------------------------------------------
(* The size of a file *)

MaxChunkSize == 262144

\* the stats Fs.newObject is given: every cumulative size up to MaxChunks
\* full chunks and MaxOver bytes, with the block size of a leaf, of a node of
\* two links and of a node as large as a chunk
CumulativeSizes == 0..(MaxChunks * (MaxChunkSize + 14) + MaxOver)

BlockSizes == {0, 102, MaxChunkSize}

\* convertSmallFileSize with the overhead of the largest bracket throughout
convertSmallFileSizeOneOverhead(cumulativeSize) ==
    IF cumulativeSize = 0 THEN 0 ELSE cumulativeSize - 14

convertSmallFileSize(cumulativeSize) ==
    IF cumulativeSize = 0 THEN 0
    ELSE IF cumulativeSize < 9 THEN cumulativeSize - 6
    ELSE IF cumulativeSize < 131 THEN cumulativeSize - 8
    ELSE IF cumulativeSize < 139 THEN cumulativeSize - 9
    ELSE IF cumulativeSize < 16388 THEN cumulativeSize - 11
    ELSE IF cumulativeSize < 16398 THEN cumulativeSize - 12
    ELSE cumulativeSize - 14

\* the / and % of Go on int64: the quotient is truncated toward zero
GoDiv(a, b) == IF a >= 0 THEN a \div b ELSE -((-a) \div b)

GoMod(a, b) == a - b * GoDiv(a, b)

\* convertToFileSize that does not take the block size off
convertToFileSizeOfAll(stat) ==
    LET i == stat.CumulativeSize
    IN  IF i < MaxChunkSize + 123
        THEN convertSmallFileSize(i)
        ELSE i - (GoDiv(i, MaxChunkSize + 14) * 14)
               - (GoMod(i, MaxChunkSize + 14)
                    - convertSmallFileSize(GoMod(i, MaxChunkSize + 14)))

convertToFileSize(stat) ==
    LET cumulativeSize == stat.CumulativeSize
    IN  IF cumulativeSize < MaxChunkSize + 123
        THEN convertSmallFileSize(cumulativeSize)
        ELSE LET i == cumulativeSize - stat.BlockSize
                 maxSizeChunks == GoDiv(i, MaxChunkSize + 14)
                 remainingSizeChunk == GoMod(i, MaxChunkSize + 14)
             IN  i - (maxSizeChunks * 14)
                   - (remainingSizeChunk - convertSmallFileSize(remainingSizeChunk))

\* Fs.newObject: size: f.convertToFileSize(*stat)
newObject ==
    /\ ~fileSize.done
    /\ fileSize' = [done |-> TRUE, size |-> convertToFileSize(objectStat)]
    /\ UNCHANGED << objectStat, opt, extVars, opCount, sharedLocked, rootVars,
                    rootLock, cl, per, regVars, phase, crashed, lin >>

----------------------------------------------------------------------------
(* The specification *)

NewFs(p) == NewFsLock(p) \/ NewFsRoot(p)

NewObject(p) == NewObjectStat(p) \/ IsFile(p)

Put(p) == PutAdd(p, "Put") \/ PutLock(p) \/ PutStore(p)

Update(p) == PutAdd(p, "Update") \/ UpdateSize(p)

Mkdir(p) == MkdirLock(p) \/ MkdirStore(p)

Rmdir(p) == RmdirLock(p) \/ RmdirStore(p)

Copy(p) == CopyLock(p, "Copy") \/ CopyStore(p)

Move(p) == CopyLock(p, "Move") \/ MoveRemove(p)

Remove(p) == RemoveLock(p) \/ RemoveStore(p)

DirMove(p) == DirMoveLock(p) \/ DirMoveStore(p) \/ DirMoveRemove(p)

MergeDirs(p) == MergeDirsLock(p) \/ MergeDirsStore(p)

Purge(p) == PurgeLock(p) \/ PurgeStore(p)

PublicLink(p) == PublicLinkPath(p) \/ PublicLinkStat(p)

List(p) == ListHash(p) \/ ListLs(p)

Open(p) == OpenPath(p) \/ OpenCat(p)

periodicPersist == persist(FALSE)

atexitRun == persist(TRUE)

persistToMFS == persistToMFSDiff \/ persistToMFSApply \/ persistToMFSFinish

persistToIPNS == persistToIPNSResolve \/ persistToIPNSPublish

Next ==
    \/ \E p \in Procs :
        \/ NewFs(p)
        \/ NewObject(p)
        \/ Put(p)
        \/ Update(p)
        \/ Mkdir(p)
        \/ Rmdir(p)
        \/ Copy(p)
        \/ Move(p)
        \/ Remove(p)
        \/ DirMove(p)
        \/ MergeDirs(p)
        \/ Purge(p)
        \/ PublicLink(p)
        \/ List(p)
        \/ Open(p)
    \/ periodicPersist
    \/ atexitRun
    \/ persistToMFS
    \/ persistToIPNS
    \/ ExternalEdit
    \/ ExternalPublish
    \/ Exit

Spec == Init /\ [][Next]_vars

\* the program on the MFS of a local daemon, under fair scheduling: a
\* goroutine inside an operation of Fs or Object takes its next step, and so
\* do the goroutine of periodicPersist and a run of persistToMFS
LiveInit ==
    /\ Init
    /\ opt = [base |-> "", gateway |-> FALSE, hasKey |-> FALSE]

Operation(p) ==
    \/ NewFs(p)
    \/ NewObject(p)
    \/ Put(p)
    \/ Update(p)
    \/ Mkdir(p)
    \/ Rmdir(p)
    \/ Copy(p)
    \/ Move(p)
    \/ Remove(p)
    \/ DirMove(p)
    \/ MergeDirs(p)
    \/ Purge(p)
    \/ PublicLink(p)
    \/ List(p)
    \/ Open(p)

LiveNext ==
    \/ \E p \in Procs : Operation(p)
    \/ periodicPersist
    \/ atexitRun
    \/ persistToMFS
    \/ ExternalEdit
    \/ Exit

\* the next step of a goroutine that is inside an operation
Continue(p) == cl[p].pc \notin {"nofs", "idle", "failed"} /\ Operation(p)

Fairness ==
    /\ \A p \in Procs : WF_vars(Continue(p))
    /\ WF_vars(periodicPersist)
    /\ WF_vars(persistToMFS)

LiveSpec == LiveInit /\ [][LiveNext]_vars /\ Fairness

\* Fs.newObject on every stat: the Root plays no part
SizeInit ==
    /\ objectStat \in [CumulativeSize : CumulativeSizes, BlockSize : BlockSizes]
    /\ fileSize = NoSize
    /\ opt = [base |-> "", gateway |-> FALSE, hasKey |-> FALSE]
    /\ mfs = EmptyDir
    /\ ipns = Tree1
    /\ extCount = 0
    /\ opCount = 0
    /\ sharedLocked = FALSE
    /\ rootExists = FALSE
    /\ binding = NoBinding
    /\ hash = NoHash
    /\ initialHash = NoHash
    /\ rootLock = "free"
    /\ cl = [p \in Procs |-> NoClient]
    /\ per = NoPersist
    /\ periodic = FALSE
    /\ atexitHooks = 0
    /\ phase = "running"
    /\ crashed = FALSE
    /\ lin = NoHash

SizeNext == newObject

SizeSpec == SizeInit /\ [][SizeNext]_vars

----------------------------------------------------------------------------
(* The claims *)

\* a client returns from its operation in this step
Returns(p) == cl[p].pc \notin {"nofs", "newfs", "idle", "failed", "fatal"} /\ cl'[p].pc = "idle"

\* a client starts and returns from its operation in this step
ReturnsAtOnce(p) == cl[p].pc = "idle" /\ cl'[p].pc = "idle" /\ cl'[p] # cl[p]

\* a client is between the store of a new hash by its operation and its return
Stored(p) == cl[p].pc \in {"newobj", "isfile", "remove_lock", "dirmove_rm"}

\* C1: whatever the interleaving of the mutations of the clients sharing the
\* Root, a new root hash waiting to be stored was computed from the hash that
\* is current, and when no store is pending Root.hash is the hash obtained
\* by applying the successful edits one at a time, in lock order: no edit
\* is lost.
C1_Linearized ==
    /\ (\A p \in Procs : cl[p].res = NoHash) => hash = lin
    /\ \A p \in Procs : cl[p].res # NoHash => cl[p].res = lin

\* one client waits for the lock with its Put while the other holds it with
\* the new hash of its edit still to store
C1_Witness ==
    /\ cl["p1"].pc = "put_lock"
    /\ rootLock = "p2"
    /\ cl["p2"].res # NoHash
    /\ cl["p2"].res = lin
    /\ hash # lin

\* C2: an operation that returns an error has not changed Root.hash, neither
\* in the step that returns nor in an earlier step of the same call.
C2_ErrorLeavesHash ==
    [][\A p \in Procs :
        (Returns(p) \/ ReturnsAtOnce(p)) /\ IsErr(cl'[p].ret)
            => ~Stored(p) /\ hash' = hash]_vars

\* C3: a client that is in no operation does not hold the lock of the Root.
C3_LockReleased ==
    \A p \in Procs : cl[p].pc \in {"nofs", "idle", "failed"} => rootLock # p

\* C4: on a read-only Root no mutation gets past its first remote call, none
\* succeeds and Root.hash stays the initial hash.
C4_ReadOnlyRejects ==
    rootExists /\ binding.isReadOnly =>
        /\ hash = initialHash
        /\ \A p \in Procs : cl[p].pc \in {"nofs", "newfs", "idle", "failed", "dead"}
                            /\ cl[p].ret # "ok"

\* a run of persist starts in this step
PersistStarts == per.pc = "idle" /\ per' # per

\* HasPrefix on the components of two paths
IsAncestorOrSelf(a, b) ==
    Len(a) <= Len(b) /\ \A i \in 1..Len(a) : a[i] = b[i]

\* the paths of a list of changes
ChangedPaths(changes) == { changes[i].Path : i \in 1..Len(changes) }

\* some externally changed path is an ancestor of, a descendant of, or equal
\* to some locally changed path
Overlap(external, initial, local) ==
    \E e \in ChangedPaths(ObjectDiff(external, initial)) :
        \E l \in ChangedPaths(ObjectDiff(initial, local)) :
            IsAncestorOrSelf(e, l) \/ IsAncestorOrSelf(l, e)

\* the step of persistToMFS that compares the changes, when no call fails
Compares == per.pc = "stat" /\ per'.pc # "stat" /\ per'.out # "error"

\* C5: a run of persist that finds hash = initialHash returns at once: it
\* makes no remote call, changes neither hash nor initialHash nor the
\* external pointers, and leaves the lock free.
C5_NothingToPersist ==
    [][PersistStarts /\ hash = initialHash =>
        /\ per'.pc = "idle"
        /\ per'.out = "noop"
        /\ per'.calls = 0
        /\ rootLock' = "free"
        /\ UNCHANGED << hash, initialHash, mfs, ipns >>]_vars

\* persist ran at exit on a writable Root with nothing to persist
C5_Witness ==
    /\ phase = "exited"
    /\ per.exit
    /\ per.out = "noop"
    /\ per.calls = 0
    /\ ~binding.isReadOnly
    /\ hash = initialHash

\* C6: when the MFS root differs from initialHash and an externally changed
\* path is an ancestor of, a descendant of, or equal to a locally changed
\* path, persistToMFS stops with the concurrent-modification failure before
\* any FilesRm or FilesCp: the MFS root, hash and initialHash are unchanged.
C6_ConflictAborts ==
    [][Compares /\ mfs # initialHash /\ Overlap(mfs, initialHash, hash) =>
        /\ per'.out = "conflict"
        /\ crashed'
        /\ per'.writes = 0
        /\ UNCHANGED << mfs, hash, initialHash >>]_vars

\* persistToMFS stopped on an external change above a local one
C6_Witness ==
    /\ crashed
    /\ per.out = "conflict"
    /\ per.writes = 0
    /\ mfs # initialHash
    /\ Overlap(mfs, initialHash, hash)
    /\ \E e \in ChangedPaths(ObjectDiff(mfs, initialHash)) :
           \E l \in ChangedPaths(ObjectDiff(initialHash, hash)) :
               e # l /\ IsAncestorOrSelf(e, l)

\* C7: when no externally changed path is an ancestor of, a descendant of,
\* or equal to a locally changed path, compared component by component,
\* persistToMFS raises no conflict.
C7_SiblingsPass ==
    [][Compares /\ mfs # initialHash /\ ~Overlap(mfs, initialHash, hash) =>
        per'.out # "conflict"]_vars

\* the external change is at the one path x, the local change at the one
\* path y, and neither path is an ancestor of the other or equal to it
Disjoint(external, initial, local, x, y) ==
    /\ ChangedPaths(ObjectDiff(external, initial)) = {x}
    /\ ChangedPaths(ObjectDiff(initial, local)) = {y}
    /\ ~IsAncestorOrSelf(x, y)
    /\ ~IsAncestorOrSelf(y, x)

\* the daemon accepts the next FilesRm or FilesCp of the run
CommandOk ==
    IF Head(per.queue).call = "FilesRm"
    THEN FilesRmOk(mfs, Head(per.queue).path)
    ELSE FilesCpOk(mfs, Head(per.queue).node, Head(per.queue).path)

\* C8: with the external change at the one path x and the local change at
\* the one path y, neither an ancestor of the other, persistToMFS raises no
\* conflict, the daemon accepts each of its commands, and when it ends the
\* MFS root holds the external content at x and the local content at y
\* (no other external change arriving during the run).
C8_DisjointMerge ==
    [][\A x, y \in {<<S>>, <<X>>, <<XY>>, <<X, S>>, <<X, X>>, <<X, XY>>} :
        /\ Compares /\ Disjoint(mfs, initialHash, hash, x, y)
               => per'.pc \in {"apply", "finish"} /\ ~crashed'
        /\ per.pc = "apply" /\ per.ext = extCount
              /\ Disjoint(per.stat, per.initial0, per.hash0, x, y)
               => CommandOk
        /\ per.pc = "finish" /\ per'.pc = "idle" /\ ~crashed' /\ per.ext = extCount
              /\ Disjoint(per.stat, per.initial0, per.hash0, x, y)
               => /\ Resolve(mfs', x) = Resolve(per.stat, x)
                  /\ Resolve(mfs', y) = Resolve(per.hash0, y)]_vars

\* C9: a run of persistToMFS that succeeds leaves hash and initialHash both
\* equal to the hash of the MFS root as read again at its end.
C9_PersistedHash ==
    [][per.pc = "finish" /\ per'.pc = "idle" /\ ~crashed' =>
        hash' = mfs' /\ initialHash' = mfs']_vars

\* persistToMFS succeeded at exit and merged an external change: the hash
\* kept is the one of the MFS root, not the one computed locally
C9_Witness ==
    /\ phase = "exited"
    /\ binding.isMFS
    /\ per.out = "ok"
    /\ per.writes > 0
    /\ hash = mfs
    /\ initialHash = mfs
    /\ hash # per.hash0

\* C10: initialHash changes only in the step that ends a successful run of
\* persist (or when the Root is built), and a run of persist that fails
\* leaves hash and initialHash at the values they had when it started.
C10_InitialHashWrites ==
    [][/\ initialHash' # initialHash =>
            \/ ~rootExists /\ rootExists'
            \/ per.pc \in {"finish", "publish"} /\ per'.pc = "idle"
                  /\ ~crashed' /\ initialHash' = hash'
       /\ per.pc # "idle" /\ crashed' =>
            hash' = per.hash0 /\ initialHash' = per.initial0]_vars

\* a run of persist with something to persist failed after a remote call
C10_Witness ==
    /\ crashed
    /\ per.out \in {"error", "conflict"}
    /\ per.calls > 0
    /\ per.hash0 # per.initial0
    /\ hash = per.hash0
    /\ initialHash = per.initial0

\* C11: on a Root bound to an IPNS name whose key the endpoint holds, a run
\* of persist with hash # initialHash first resolves the name; when the
\* resolved hash differs from initialHash it fails as a conflict and nothing
\* is published; otherwise it publishes hash, and initialHash becomes hash
\* only in the step in which the publish succeeds: a failed publish leaves
\* the record and initialHash as they were.
C11_PersistToIPNS ==
    [][/\ PersistStarts /\ ~binding.isMFS /\ binding.ipnsKey # ""
             /\ hash # initialHash
           => per'.pc = "resolve" /\ per'.calls = 0 /\ UNCHANGED << ipns, initialHash >>
       /\ per.pc = "resolve" /\ per'.pc # "resolve" /\ per'.out # "error"
           => /\ UNCHANGED << ipns, hash, initialHash >>
              /\ IF ipns # initialHash
                 THEN crashed' /\ per'.out = "conflict" /\ per'.writes = 0
                 ELSE per'.pc = "publish" /\ ~crashed'
       /\ per.pc = "publish" /\ per'.pc # "publish"
           => IF crashed'
              THEN UNCHANGED << ipns, hash, initialHash >>
              ELSE ipns' = hash /\ initialHash' = hash /\ hash' = hash]_vars

\* the run of persist at exit published a changed hash under the name
C11_Witness ==
    /\ phase = "exited"
    /\ ~binding.isMFS
    /\ binding.ipnsKey # ""
    /\ per.out = "ok"
    /\ per.writes = 1
    /\ per.hash0 # per.initial0
    /\ ipns = per.hash0
    /\ initialHash = per.hash0

\* C12 as stated: every Root that is not read-only has the periodic
\* persister.
C12_PeriodicForWritable == rootExists /\ ~binding.isReadOnly => periodic

\* C12, amended: the periodic persister runs for exactly the Roots that are
\* writable and bound to the MFS; a run of persist that is not the one at
\* exit is on such a Root, and a writable Root bound to an IPNS name has none.
C12_PeriodicForMFS ==
    /\ [](rootExists => (periodic <=> ~binding.isReadOnly /\ binding.isMFS))
    /\ [][per.pc = "idle" /\ per'.pc # "idle" /\ ~per'.exit
            => binding.isMFS /\ ~binding.isReadOnly /\ periodic]_vars

\* a writable Root bound to an IPNS name holds a change, and no periodic
\* persister exists to publish it
C12_Witness ==
    /\ rootExists
    /\ ~binding.isMFS
    /\ binding.ipnsKey # ""
    /\ ~binding.isReadOnly
    /\ hash # initialHash
    /\ ~periodic
    /\ atexitHooks = 1
    /\ per = NoPersist
    /\ Alive

\* C13: r.persist is registered with atexit once for a Root that is not
\* read-only, however many Fs share the Root, and never for a read-only
\* Root; the run of persist at exit is started once, and only on a Root
\* with that one registration.
C13_OneExitRun ==
    /\ [](atexitHooks = IF rootExists /\ ~binding.isReadOnly THEN 1 ELSE 0)
    /\ [][per.pc = "idle" /\ per' # per /\ per'.exit
            => ~per.exit /\ atexitHooks = 1 /\ ~binding.isReadOnly]_vars
    /\ [][phase = "running" /\ phase' = "exited" /\ atexitHooks = 1
            => per'.exit /\ per'.out \in {"noop", "ok"}]_vars

\* two Fs share a writable Root with one registration, and the run of
\* persist at exit is under way
C13_Witness ==
    /\ \A p \in Procs : cl[p].pc = "idle"
    /\ rootExists
    /\ ~binding.isReadOnly
    /\ atexitHooks = 1
    /\ per.exit
    /\ per.pc # "idle"

\* C14: while a run of persist is between its start and its return the run
\* holds the lock of the Root, so no mutation holds it; and a run, periodic
\* or at exit, starts only when no run is under way.
C14_OnePersist ==
    /\ [](per.pc # "idle" => rootLock = "persist")
    /\ [](rootLock \in Procs => per.pc = "idle")
    /\ [][per'.pc \in {"stat", "resolve"} /\ per'.calls = 0 /\ per' # per
            => per.pc = "idle" /\ rootLock = "free"]_vars

\* a periodic run is applying its changes while the program could end and a
\* client could start a mutation: both wait for the lock
C14_Witness ==
    /\ per.pc = "apply"
    /\ ~per.exit
    /\ rootLock = "persist"
    /\ atexitHooks = 1
    /\ Quiescent
    /\ \E p \in Procs : CanStart(p)

\* C15: NewRoot builds the Root of the key at most once: a NewFs that finds
\* the Root in the cache returns with that Root, leaving its fields, its
\* registrations and its pending changes as they are, and the Root of the
\* key is never replaced; so what one Fs stored in hash is what the other
\* reads.
C15_SharedRoot ==
    /\ [][\A p \in Procs :
            cl[p].pc = "newfs" /\ cl'[p].pc = "idle" /\ rootExists
                => UNCHANGED << rootVars, regVars, lin >>]_vars
    /\ [][rootExists => rootExists' /\ binding' = binding]_vars

\* the second Fs holds the Root the first Fs changed and has not persisted
C15_Witness ==
    /\ rootExists
    /\ cl["p1"].pc = "idle" /\ cl["p1"].ret = "ok"
    /\ cl["p2"].pc = "idle" /\ cl["p2"].ret = "none"
    /\ hash # initialHash
    /\ hash = lin

\* C16: the NewRoot that NewFs runs when the cache has no Root ends in the
\* one outcome its configuration names: with an empty --ipfs-root, a
\* writable Root of the MFS with hash = initialHash = the hash FilesStat
\* gave, or the gateway error on the public gateway; with /ipfs/<hash>, a
\* read-only Root with hash = initialHash = <hash>; with /ipns/<name>, a
\* Root bound to the name, holding the hash the name resolves to; with any
\* other path, the invalid-path error. The only other outcome is the error
\* of a remote call.
C16_NewRootOutcome ==
    [][\A p \in Procs :
        cl[p].pc = "newfs" /\ ~rootExists /\ cl'[p].pc # "newfs" =>
            LET made   == cl'[p].pc = "idle" /\ rootExists'
                           /\ hash' = initialHash'
                failed == cl'[p].pc = "failed" /\ ~rootExists'
            IN  IF opt.base = "" /\ ~opt.gateway
                THEN \/ made /\ binding'.isMFS /\ ~binding'.isReadOnly
                             /\ binding'.ipnsPath = "" /\ hash' = mfs
                     \/ failed /\ cl'[p].ret = "FilesStat"
                ELSE IF opt.base = ""
                THEN failed /\ cl'[p].ret = "gateway"
                ELSE IF opt.base = "/ipfs/"
                THEN made /\ ~binding'.isMFS /\ binding'.isReadOnly
                          /\ binding'.ipnsPath = "" /\ hash' = IpfsPathHash
                ELSE IF opt.base = "/ipns/"
                THEN \/ made /\ ~binding'.isMFS /\ binding'.ipnsPath = "/ipns/name"
                             /\ hash' = ipns
                     \/ failed /\ cl'[p].ret \in {"KeyList", "NameResolve"}
                ELSE failed /\ cl'[p].ret = "invalid"]_vars

\* NewFs on the public gateway with an empty --ipfs-root was refused
C16_Witness ==
    /\ opt.base = "" /\ opt.gateway
    /\ cl["p1"].pc = "failed"
    /\ cl["p1"].ret = "gateway"
    /\ ~rootExists

\* C17: a Root bound to /ipns/<name> is writable exactly when the endpoint
\* is not the public gateway and its key list has a key whose Id is <name>;
\* ipnsKey is then the Name of that key, and otherwise the Root is read-only
\* and ipnsKey is empty.
C17_IpnsWritable ==
    rootExists /\ opt.base = "/ipns/" =>
        LET keys == { k \in KeyList(opt) : k.Id = IpnsName }
        IN  IF ~opt.gateway /\ keys # {}
            THEN ~binding.isReadOnly /\ binding.ipnsKey \in { k.Name : k \in keys }
            ELSE binding.isReadOnly /\ binding.ipnsKey = ""

\* the endpoint holds the key of the name: the Root is writable under it
C17_Witness ==
    /\ rootExists
    /\ opt.base = "/ipns/"
    /\ ~binding.isReadOnly
    /\ binding.ipnsKey = "k1"
    /\ binding.ipnsPath = "/ipns/name"

\* C18: a NewFs whose NewRoot fails leaves no Root: the cache has no entry,
\* no r.persist is registered with atexit and no periodic persister runs.
C18_NoPartialRoot ==
    [][\A p \in Procs :
        cl[p].pc = "newfs" /\ cl'[p].pc = "failed" =>
            /\ ~rootExists' /\ binding' = NoBinding
            /\ hash' = NoHash /\ initialHash' = NoHash
            /\ atexitHooks' = 0 /\ ~periodic'
            /\ cl'[p].ret \in {"FilesStat", "NameResolve", "KeyList",
                               "gateway", "invalid"}]_vars

\* the key listing or the resolution of the name failed: NewFs returned the
\* error and nothing was built
C18_Witness ==
    /\ opt.base = "/ipns/"
    /\ cl["p1"].pc = "failed"
    /\ cl["p1"].ret \in {"KeyList", "NameResolve"}
    /\ ~rootExists
    /\ atexitHooks = 0
    /\ ~periodic

\* C19: PublicLink issues no remote call: it returns from the step that
\* reads the hash under the read lock, so no client is ever inside
\* PublicLink waiting for the answer of the endpoint.
C19_NoRemoteCall == \A p \in Procs : cl[p].pc # "publiclink_stat"

\* C20: for every cumulative size c < MaxChunkSize + 123 the size of the
\* file is 0 for c = 0, c - 6 for 1 <= c <= 8, c - 8 for 9 <= c <= 130,
\* c - 9 for 131 <= c <= 138, c - 11 for 139 <= c <= 16387, c - 12 for
\* 16388 <= c <= 16397 and c - 14 from 16398 on, whatever the block size.
C20_SmallFileSize ==
    LET c == objectStat.CumulativeSize
    IN  fileSize.done /\ c < MaxChunkSize + 123 =>
            fileSize.size = IF c = 0 THEN 0
                            ELSE IF 1 <= c /\ c <= 8 THEN c - 6
                            ELSE IF 9 <= c /\ c <= 130 THEN c - 8
                            ELSE IF 131 <= c /\ c <= 138 THEN c - 9
                            ELSE IF 139 <= c /\ c <= 16387 THEN c - 11
                            ELSE IF 16388 <= c /\ c <= 16397 THEN c - 12
                            ELSE c - 14

\* the last size of the bracket of 12 bytes, with a block size that is not 0
C20_Witness ==
    /\ fileSize.done
    /\ objectStat.CumulativeSize = 16397
    /\ objectStat.BlockSize # 0
    /\ fileSize.size = 16385

\* C21: for every cumulative size c >= MaxChunkSize + 123 and block size b
\* (0 <= b <= c), with i = c - b, q = i div (MaxChunkSize + 14) and
\* r = i mod (MaxChunkSize + 14), the size of the file is
\* q * MaxChunkSize + convertSmallFileSize(r).
C21_ChunkedFileSize ==
    LET c == objectStat.CumulativeSize
        b == objectStat.BlockSize
        i == c - b
        q == i \div (MaxChunkSize + 14)
        r == i % (MaxChunkSize + 14)
    IN  fileSize.done /\ c >= MaxChunkSize + 123 /\ 0 <= b /\ b <= c =>
            fileSize.size = q * MaxChunkSize + convertSmallFileSize(r)

\* two full chunks and a remainder of 135 bytes under a node of 102 bytes
C21_Witness ==
    /\ fileSize.done
    /\ objectStat.BlockSize = 102
    /\ objectStat.CumulativeSize = 2 * (MaxChunkSize + 14) + 135 + 102
    /\ fileSize.size = 2 * MaxChunkSize + 126

\* a client reads Root.hash in this step (NewObject, isFile, PublicLink,
\* List, Open)
ReadsHash(p) ==
    \/ cl[p].pc \in {"newobj", "isfile"} /\ cl'[p].pc \notin {cl[p].pc, "dead"}
    \/ cl[p].pc = "idle" /\ cl'[p].pc \in {"publiclink_stat", "list_ls", "open_cat"}

\* C22: a read operation reads Root.hash only when no mutation and no run of
\* persist holds the write lock; readers do not wait for one another; the
\* hash a reader takes away is the one in Root.hash at that moment, never the
\* copy DirMove stored and is about to replace within its hold of the lock.
C22_ReadersExcluded ==
    [][\A p \in Procs : ReadsHash(p) =>
            /\ rootLock = "free"
            /\ per.pc = "idle"
            /\ \A q \in Procs : cl[q].pc # "dirmove_rm"
            /\ cl'[p].pc \in {"publiclink_stat", "list_ls", "open_cat"}
                    => cl'[p].link = hash]_vars

\* a client is about to read the hash in NewObject while DirMove holds the
\* lock with the copy stored and the source not yet removed
C22_Witness ==
    /\ cl["p2"].pc = "newobj"
    /\ cl["p1"].pc = "dirmove_rm"
    /\ rootLock = "p1"
    /\ Resolve(hash, <<S>>) # NoHash
    /\ Resolve(hash, <<X>>) # NoHash

C24_RmdirEmptyOnly ==
    [][\A p \in Procs :
        /\ cl[p].pc = "idle" /\ cl'[p].pc = "rmdir_store" =>
              /\ Resolve(hash, cl'[p].remote) # NoHash
              /\ NumLinks(Resolve(hash, cl'[p].remote)) = 0
              /\ cl'[p].res = ObjectPatchRmLink(hash, cl'[p].remote)
              /\ rootLock' = p /\ hash' = hash
        /\ cl[p].pc = "rmdir_store" /\ cl'[p].pc = "idle" =>
              /\ rootLock = p
              /\ NumLinks(Resolve(hash, cl[p].remote)) = 0
              /\ hash' = ObjectPatchRmLink(hash, cl[p].remote)
        /\ ReturnsAtOnce(p) /\ cl'[p].ret = "ErrorDirectoryNotEmpty" =>
              /\ NumLinks(Resolve(hash, relativePath(p, DirRemote))) > 0
              /\ hash' = hash /\ rootLock' = "free" /\ cl'[p].res = NoHash
        /\ ReturnsAtOnce(p) /\ cl'[p].ret = "ErrorDirNotFound" =>
              /\ Resolve(hash, relativePath(p, DirRemote)) = NoHash
              /\ hash' = hash /\ rootLock' = "free" /\ cl'[p].res = NoHash]_vars

\* Rmdir of the directory x, which holds the file x/s, was refused
C24_Witness ==
    /\ cl["p1"].pc = "idle"
    /\ cl["p1"].ret = "ErrorDirectoryNotEmpty"
    /\ NumLinks(Resolve(hash, <<X>>)) > 0
    /\ hash = initialHash
    /\ rootLock = "free"

\* the remote calls of the changes before the i-th
RECURSIVE CallsBefore(_, _)
CallsBefore(changes, i) ==
    IF i = 1 THEN 0
    ELSE CallsBefore(changes, i - 1)
           + (IF changes[i - 1].Before # NoHash THEN 1 ELSE 0)
           + (IF changes[i - 1].After # NoHash THEN 1 ELSE 0)

\* calls is, change by change in the order of the diff, a FilesRm of the
\* path exactly when the change has a Before and then a FilesCp of After
\* into the path exactly when it has an After
InDiffOrder(changes, calls) ==
    /\ Len(calls) = CallsBefore(changes, Len(changes) + 1)
    /\ \A i \in 1..Len(changes) :
        LET c  == changes[i]
            n  == CallsBefore(changes, i)
            cp == IF c.Before # NoHash THEN n + 2 ELSE n + 1
        IN  /\ c.Before # NoHash =>
                  calls[n + 1].call = "FilesRm" /\ calls[n + 1].path = c.Path
            /\ c.After # NoHash =>
                  /\ calls[cp].call = "FilesCp" /\ calls[cp].path = c.Path
                  /\ calls[cp].node = c.After

\* C25: persistToMFS issues, in the order of the diff of initialHash and
\* hash, a FilesRm for each change with a Before and then a FilesCp for each
\* change with an After; it sends them one at a time, and the first call
\* that fails ends the run with the MFS as the calls before it left it.
C25_ApplyInOrder ==
    [][/\ per.pc = "stat" /\ per'.pc \in {"apply", "finish"} =>
              /\ InDiffOrder(ObjectDiff(initialHash, hash), per'.queue)
              /\ per'.pc = "finish" <=> per'.queue = <<>>
       /\ per.pc = "apply" /\ per' # per =>
              IF crashed'
              THEN mfs' = mfs /\ per'.pc = "idle" /\ per'.queue = <<>>
              ELSE /\ per'.queue = Tail(per.queue)
                   /\ per'.writes = per.writes + 1
                   /\ per'.pc = "finish" <=> per'.queue = <<>>
                   /\ mfs' = IF Head(per.queue).call = "FilesRm"
                             THEN FilesRm(mfs, Head(per.queue).path)
                             ELSE FilesCp(mfs, Head(per.queue).node,
                                          Head(per.queue).path)]_vars

\* persistToMFS is about to replace a path: FilesRm of it, then FilesCp
C25_Witness ==
    /\ per.pc = "apply"
    /\ Len(per.queue) >= 2
    /\ per.queue[1].call = "FilesRm"
    /\ per.queue[2].call = "FilesCp"
    /\ per.queue[1].path = per.queue[2].path

\* C26: when NewFs on /ipns/<name> fails with the error of the resolution
\* of the name, NewRoot has requested no key listing.
C26_ResolveFirst ==
    \A p \in Procs :
        cl[p].pc = "failed" /\ cl[p].ret = "NameResolve" =>
            "KeyList" \notin IssuedCalls(opt, "NameResolve")

\* C27: the binding of a Root is the one NewRoot gave it for as long as the
\* Root exists; for a read-only Root no run of persist is registered, none
\* starts and none has sent a call, and the MFS root and the IPNS record
\* change by the steps of other writers only.
C27_ReadOnlyNeverWrites ==
    /\ [][rootExists => rootExists' /\ binding' = binding]_vars
    /\ [](rootExists /\ binding.isReadOnly =>
              ~periodic /\ atexitHooks = 0 /\ per = NoPersist)
    /\ [][rootExists /\ binding.isReadOnly /\ << mfs, ipns >>' # << mfs, ipns >>
              => extCount' = extCount + 1]_vars

\* the program ended with local changes on a read-only Root
C27_Witness ==
    /\ rootExists
    /\ binding.isReadOnly
    /\ hash # initialHash
    /\ phase = "exited"
    /\ per.writes = 0

\* local changes of the MFS Root that are not persisted
Dirty == rootExists /\ binding.isMFS /\ hash # initialHash

\* the Root, its initial hash and the MFS root are one hash
Clean == rootExists /\ hash = initialHash /\ hash = mfs

\* C28 as stated: under fair scheduling, when no call of persist fails and
\* no conflict is found, a dirty Root of the MFS leads to a Root whose hash
\* equals initialHash and the hash of the MFS root.
C28_DirtyBecomesClean == []~crashed => (Dirty ~> Clean)

\* C28: under fair scheduling, when no call of persist fails and no conflict
\* is found, a dirty Root of the MFS leads to hash = initialHash; the run of
\* persist that makes them equal leaves both equal to the hash of the MFS
\* root, and periodicPersist stays armed after every run that returns.
C28_DirtyBecomesUnchanged ==
    /\ []~crashed => (Dirty ~> (hash = initialHash))
    /\ [][Dirty /\ per.pc = "finish" /\ hash' = initialHash' => Clean']_vars
    /\ [][periodic /\ ~crashed' => periodic']_vars

\* a periodic run of persistToMFS has pushed the local changes and is about
\* to read the hash of the MFS root
C28_Witness ==
    /\ Dirty
    /\ periodic
    /\ ~per.exit
    /\ per.pc = "finish"
    /\ per.writes > 0
    /\ mfs = hash

\* the hash of the Root has every change of the sequence changes
HasChanges(n, changes) ==
    \A i \in 1..Len(changes) : Resolve(n, changes[i].Path) = changes[i].After

ChangedSinceStat == ChangedPaths(ObjectDiff(per.stat, mfs))

\* C30: the only FilesRm or FilesCp of a run of persistToMFS succeeds on a
\* path only when no other writer has changed this path, an ancestor or a
\* descendant of it since the run read the MFS root.
C30_NoSilentOverwrite ==
    [][/\ per.pc = "apply"
       /\ per.writes = 0
       /\ per'.pc = "finish"
       /\ per'.writes = 1
       => \A e \in ChangedSinceStat :
              /\ ~IsAncestorOrSelf(e, Head(per.queue).path)
              /\ ~IsAncestorOrSelf(Head(per.queue).path, e)]_vars

\* C31: MergeDirs that returns an error leaves Root.hash as it was before
\* the call and the lock free; otherwise it keeps the lock, with Root.hash
\* still the hash before the call, until it stores the hash with every link
\* added and the merged directory removed; no run of persist and no reader
\* takes Root.hash in between.
C31_MergeAllOrNothing ==
    /\ [][\A p \in Procs :
            /\ MergeDirsLock(p) /\ cl'[p].pc = "idle" =>
                  hash' = hash /\ rootLock' = "free" /\ cl'[p].ret = "err"
            /\ cl[p].pc = "idle" /\ cl'[p].pc = "mergedirs_store" =>
                  /\ hash' = hash /\ rootLock' = p
                  /\ cl'[p].res = MergeDir(hash, cl'[p].remote, cl'[p].dst)
            /\ cl[p].pc = "mergedirs_store" /\ cl'[p].pc = "mergedirs_store" =>
                  hash' = hash /\ \A q \in Procs : ~ReadsHash(q)
            /\ cl[p].pc = "mergedirs_store" /\ cl'[p].pc = "idle" =>
                  hash' = MergeDir(hash, cl[p].remote, cl[p].dst)]_vars
    /\ [](\A p \in Procs : cl[p].pc = "mergedirs_store" =>
              rootLock = p /\ per.pc = "idle")

\* MergeDirs holds the lock with a link of the merged directory added and
\* the directory removed in its working hash, Root.hash is the hash before
\* the call, and a reader is about to read Root.hash
C31_Witness ==
    \E p, q \in Procs :
        /\ cl[p].pc = "mergedirs_store"
        /\ rootLock = p
        /\ LinkNames(Resolve(hash, cl[p].dst)) # {}
        /\ Resolve(cl[p].res, cl[p].dst) = NoHash
        /\ cl[p].res # hash
        /\ cl[q].pc = "newobj"

\* Move has stored the hash with the destination link and has not yet
\* removed the source link
MidMove(p) == cl[p].op = "Move" /\ cl[p].pc \in {"newobj", "isfile", "remove_lock"}

\* C32: while Move has added the destination link and not yet removed the
\* source link, no run of persist is in progress, no other client reads
\* Root.hash and none takes the lock; and a Move that returns an error
\* leaves no destination link of its own in Root.hash.
C32_MoveAtomic ==
    /\ [](\A p \in Procs : MidMove(p) => per.pc = "idle")
    /\ [][\A p \in Procs : MidMove(p) =>
              \A q \in Procs \ {p} : ~ReadsHash(q) /\ (rootLock' = q => rootLock = q)]_vars
    /\ [][\A p \in Procs :
              MidMove(p) /\ cl'[p].pc = "idle" /\ cl'[p].ret # "ok" =>
                  Resolve(hash', cl[p].remote) # cl[p].link]_vars

\* C33: the root hash that isFile reads for NewObject is the one NewObject
\* built the path of its ObjectStat from.
C33_OneSnapshot ==
    [][\A p \in Procs :
          cl[p].pc = "isfile" /\ cl'[p].pc \notin {"isfile", "dead"} =>
              hash = cl[p].rootHash]_vars

\* C34: sharedRoot is locked only while a client is inside NewFs, so a
\* NewFs that has returned, with or without an error, has released it.
C34_RegistryLockReleased ==
    sharedLocked => \E p \in Procs : cl[p].pc = "newfs"

\* C35: when Put returned an error, Object.Update returns this error to its
\* caller and the process does not crash.
C35_UpdateReturnsError ==
    [][\A p \in Procs :
          cl[p].pc = "update_size" /\ cl[p].ret # "ok" /\ cl'[p] # cl[p] =>
              ~crashed' /\ cl'[p].pc = "idle" /\ cl'[p].ret = cl[p].ret]_vars

\* C36: for every cumulative size c >= 0 and block size b with 0 <= b <= c
\* the size of the file is at least 0 and at most c.
C36_SizeInRange ==
    LET c == objectStat.CumulativeSize
        b == objectStat.BlockSize
    IN  fileSize.done /\ 0 <= b /\ b <= c =>
            0 <= fileSize.size /\ fileSize.size <= c

====
